---- MODULE Spec2Model ----
\* Model of the batch pipelines of rj-ash/mail-merger:
\*   EmailGenerationPipeline (src/mail_generation.py): process_all_leads,
\*   process_batch, send_request_with_retry;
\*   the "Generate Emails" handler of src/app.py that runs the pipeline and
\*   stores / merges its results in st.session_state.generated_emails;
\*   the batch plan of EmailSender.send_emails (src/email_sender.py).
\* Time is not modelled: every await (remote call, retry sleep, inter-batch
\* sleep) is a position of the coroutine that a later step leaves.
\* Timestamps of attempt records are left out (no clock in the model).
EXTENDS Integers, Sequences, FiniteSets, TLC

\* ------------------------------------------------------------------ bounds
\* Longest input list of a pipeline run.
MaxLeads == 3
\* Largest batch_size, max_concurrent and max_retries of a pipeline run.
MaxBatchSize == 2
MaxConcurrent == 2
MaxRetries == 1
\* Largest max_retries of a single-item run (SpecRetry).
MaxItemRetries == 2
\* Longest input list and longest stored result list of a run of the app's
\* handler (SpecResume).
MaxResumeLeads == 2
MaxPrior == 2

VARIABLES
    batch_size,        \* self.batch_size
    max_concurrent,    \* self.max_concurrent
    max_retries,       \* self.max_retries
    remote,            \* the answers the remote service can give in this run
    all_payloads,      \* argument of process_all_leads
    all_results,       \* self.all_results
    pc,                \* position of process_all_leads
    raised,            \* the exception process_all_leads ended with, or None
    i,                 \* loop variable i of process_all_leads (offset of the batch)
    batch_num,         \* loop variable batch_num
    batch,             \* loop variable batch (the current slice)
    plan,              \* history: the batches built so far, in order
    pauses,            \* history: the inter-batch sleeps that are over
    total_processed,   \* local total_processed
    total_successful,  \* local total_successful
    semaphore,         \* value of the asyncio.Semaphore of the current batch
    tasks,             \* one coroutine bounded_send_request per input position
    generated_emails,  \* st.session_state.generated_emails
    prior_emails,      \* history: generated_emails when the handler started
    resume_generation, \* the "Resume previous generation" checkbox
    app_pc,            \* position of the app's handler around the pipeline
    df,                \* the DataFrame given to EmailSender
    sender_batch_size, \* EmailSender.batch_size
    send_pc,           \* position of send_emails
    batches,           \* local batches of send_emails
    send_tasks,        \* one coroutine send_email_batch per batch
    send_results,      \* local results of send_emails: the summary it returns
    sending_status     \* history: what the calls of get_sending_status returned

vars == <<batch_size, max_concurrent, max_retries, remote, all_payloads,
          all_results, pc, raised, i, batch_num, batch, plan, pauses,
          total_processed, total_successful, semaphore, tasks, generated_emails,
          prior_emails, resume_generation, app_pc, df, sender_batch_size,
          send_pc, batches, send_tasks, send_results, sending_status>>

config == <<batch_size, max_concurrent, max_retries, remote, all_payloads>>
appVars == <<generated_emails, prior_emails, resume_generation, app_pc>>
sendVars == <<df, sender_batch_size, send_pc, batches, send_tasks,
              send_results, sending_status>>
pipelineVars == <<config, all_results, pc, raised, i, batch_num, batch, plan,
                  pauses, total_processed, total_successful, semaphore, tasks,
                  appVars>>

\* Items of the batch whose attempts fail in every way.
MaxFailLeads == 2

\* Most rows of a DataFrame given to get_sending_status.
MaxRows == 4

\* Most rows of a DataFrame given to send_emails and largest batch size of
\* the EmailSender.
MaxSendRows == 3
MaxSendBatchSize == 2

\* ------------------------------------------------------------- data model
None == "None"

\* Lead identifiers of the inputs.
LeadIds == {"L1", "L2", "L3", "L4"}

LeadName(id) == CASE id = "L1" -> "Ann" [] id = "L2" -> "Bo"
                  [] id = "L3" -> "Cy"  [] OTHER -> "Di"

\* A payload as app.py builds it: payload["lead"] with lead_id, name, company.
Payload(id) == [lead_id |-> id, name |-> LeadName(id), company |-> "Acme"]

Min(a, b) == IF a <= b THEN a ELSE b

\* Python's list[lo:hi] for 0 <= lo (0-based, hi exclusive, clipped to the list).
Slice(list, lo, hi) == SubSeq(list, lo + 1, Min(hi, Len(list)))

\* Python's range(start, stop, step) for step >= 1, as a sequence.
RECURSIVE Range(_, _, _)
Range(start, stop, step) ==
    IF start >= stop THEN <<>> ELSE <<start>> \o Range(start + step, stop, step)

\* send_emails: batches = [email_payloads[i:i + size] for i in range(0, len, size)]
SendEmailsBatches(email_payloads, size) ==
    LET r == Range(0, Len(email_payloads), size)
    IN  [n \in 1..Len(r) |-> Slice(email_payloads, r[n], r[n] + size)]

\* Sequences without repetition over S, of length at most n.
InjectiveSeqs(S, n) ==
    UNION {{s \in [1..k -> S] : \A a, b \in 1..k : a # b => s[a] # s[b]} : k \in 0..n}

\* --------------------------------------------------------- remote service
\* Response bodies that are JSON text, and what response.json() makes of them.
JsonTexts == {"{email_A}", "{email_B}", "null"}

ParseJson(text) ==
    CASE text = "{email_A}" -> "email_A"
      [] text = "{email_B}" -> "email_B"
      [] OTHER -> None

OkResponses == {[kind |-> "http", status |-> 200, body |-> b] : b \in JsonTexts}
\* HTTP 200 whose body is not JSON: response.json() raises.
BadBodyResponse == [kind |-> "http", status |-> 200, body |-> "<html>"]
Http500Response == [kind |-> "http", status |-> 500, body |-> "Internal Server Error"]
TimeoutResponse == [kind |-> "timeout", status |-> 0, body |-> ""]
TransportError == [kind |-> "exception", status |-> 0, body |-> "Cannot connect to host"]

AllResponses == OkResponses \cup
    {BadBodyResponse, Http500Response, TimeoutResponse, TransportError}

\* ------------------------------------------- send_request_with_retry
\* detailed_result as created on entry.
NewDetailedResult(payload) ==
    [lead_id |-> payload.lead_id, lead_name |-> payload.name,
     company |-> payload.company, status |-> "failed", attempts |-> <<>>,
     final_result |-> None, error |-> None, payload |-> payload]

\* Faulty variant of AttemptInfo: the attempt keeps the payload without its
\* company.
AttemptInfoTrimsPayload(attempt, status, error, payload) ==
    [attempt_number |-> attempt + 1, status |-> status, error |-> error,
     payload |-> [payload EXCEPT !.company = None]]

\* Faulty variant of AttemptInfo: the 0-based loop variable is recorded.
AttemptInfoZeroBased(attempt, status, error, payload) ==
    [attempt_number |-> attempt, status |-> status, error |-> error,
     payload |-> payload]

\* attempt_info of loop iteration `attempt` (0-based), with its final fields.
AttemptInfo(attempt, status, error, payload) ==
    [attempt_number |-> attempt + 1, status |-> status, error |-> error,
     payload |-> payload]

\* Faulty variant of TakesSuccessBranch: the status alone decides.
TakesSuccessBranchStatusOnly(r) == r.kind = "http" /\ r.status = 200

\* The success branch is taken: status 200 and response.json() returns.
TakesSuccessBranch(r) ==
    r.kind = "http" /\ r.status = 200 /\ r.body \in JsonTexts

\* Faulty variant of ErrorMsg: asyncio.TimeoutError is not told apart from
\* other exceptions, and its str() is empty.
ErrorMsgTimeoutAsException(r) ==
    CASE r.kind = "http" /\ r.status # 200 ->
            (IF r.status = 500 THEN "HTTP 500" ELSE IF r.status = 404 THEN "HTTP 404" ELSE "HTTP")
      [] r.kind = "http" /\ r.status = 200 -> "JSONDecodeError"
      [] OTHER -> r.body

\* error_msg of a failed attempt: f"HTTP {response.status}", "Timeout", str(e).
HttpError(status) ==
    CASE status = 500 -> "HTTP 500" [] status = 404 -> "HTTP 404" [] OTHER -> "HTTP"

ErrorMsg(r) ==
    CASE r.kind = "http" /\ r.status # 200 -> HttpError(r.status)
      [] r.kind = "timeout" -> "Timeout"
      [] r.kind = "http" /\ r.status = 200 -> "JSONDecodeError"
      [] OTHER -> r.body

\* `for attempt in range(self.max_retries + 1)` has a first iteration.
LoopStarts == 0 < max_retries + 1

\* Faulty variant of LoopContinues: the range is one too long.
LoopContinuesOffByOne(attempt) == attempt + 1 < max_retries + 2

\* `for attempt in range(self.max_retries + 1)` has an iteration after `attempt`.
LoopContinues(attempt) == attempt + 1 < max_retries + 1

\* Faulty variant of HasRetriesLeft: the bound is off by one.
HasRetriesLeftOffByOne(attempt) == attempt <= max_retries

\* `if attempt < self.max_retries`: the retry delay is slept.
HasRetriesLeft(attempt) == attempt < max_retries

\* The coroutine of one input position before process_batch creates it.
\* calls: the answers its remote calls got; sleeps: the retry delays it slept;
\* finished: its place in the order in which the coroutines of the batch
\* returned (0 while it has not).
NoTask(payload) ==
    [pc |-> "unscheduled", attempt |-> 0, payload |-> payload,
     detailed_result |-> NewDetailedResult(payload),
     result |-> None, success |-> FALSE, calls |-> <<>>, sleeps |-> 0,
     finished |-> 0]

\* Entry of send_request_with_retry up to the first session.post; with an
\* empty range the loop is skipped and line 108 returns at once.
EnterRequest(t) ==
    [t EXCEPT !.pc = IF LoopStarts THEN "awaiting" ELSE "returned",
              !.attempt = 0,
              !.detailed_result = NewDetailedResult(t.payload)]

\* Faulty variant of OnSuccess: attempt_info["status"] is not set to "success".
OnSuccessAttemptNotMarked(t, r) ==
    [t EXCEPT !.pc = "returned",
              !.detailed_result =
                  [@ EXCEPT !.status = "success",
                            !.final_result = ParseJson(r.body),
                            !.attempts = Append(@, AttemptInfo(t.attempt, "failed", None, t.payload))],
              !.result = ParseJson(r.body),
              !.success = TRUE,
              !.calls = Append(@, r)]

\* Faulty variant of OnSuccess: the return is missing, the loop goes on.
OnSuccessNoReturn(t, r) ==
    [t EXCEPT !.pc = IF t.attempt < max_retries THEN "retry_wait" ELSE "returned",
              !.detailed_result =
                  [@ EXCEPT !.status = "success",
                            !.final_result = ParseJson(r.body),
                            !.attempts = Append(@, AttemptInfo(t.attempt, "success", None, t.payload))],
              !.result = ParseJson(r.body),
              !.success = TRUE,
              !.calls = Append(@, r)]

\* Faulty variant of OnSuccess: the error of earlier attempts is cleared.
OnSuccessClearsError(t, r) ==
    [t EXCEPT !.pc = "returned",
              !.detailed_result =
                  [@ EXCEPT !.status = "success",
                            !.final_result = ParseJson(r.body),
                            !.error = None,
                            !.attempts = Append(@, AttemptInfo(t.attempt, "success", None, t.payload))],
              !.result = ParseJson(r.body),
              !.success = TRUE,
              !.calls = Append(@, r)]

\* Lines 79-86: the attempt succeeded; the coroutine returns.
OnSuccess(t, r) ==
    [t EXCEPT !.pc = "returned",
              !.detailed_result =
                  [@ EXCEPT !.status = "success",
                            !.final_result = ParseJson(r.body),
                            !.attempts = Append(@, AttemptInfo(t.attempt, "success", None, t.payload))],
              !.result = ParseJson(r.body),
              !.success = TRUE,
              !.calls = Append(@, r)]

\* Faulty variant of RecordFailure: detailed_result["error"] keeps the first error.
RecordFailureKeepsFirstError(t, r) ==
    [t EXCEPT !.detailed_result =
                  [@ EXCEPT !.attempts = Append(@, AttemptInfo(t.attempt, "failed", ErrorMsg(r), t.payload)),
                            !.error = IF @ = None THEN ErrorMsg(r) ELSE @],
              !.calls = Append(@, r)]

\* Lines 87-102: the failed attempt is appended and its error kept.
RecordFailure(t, r) ==
    [t EXCEPT !.detailed_result =
                  [@ EXCEPT !.attempts = Append(@, AttemptInfo(t.attempt, "failed", ErrorMsg(r), t.payload)),
                            !.error = ErrorMsg(r)],
              !.calls = Append(@, r)]

\* The end of one iteration: the next session.post, or the loop is over and
\* line 108 returns (None, False, detailed_result).
EndIteration(t) ==
    IF LoopContinues(t.attempt)
    THEN [t EXCEPT !.pc = "awaiting", !.attempt = @ + 1]
    ELSE [t EXCEPT !.pc = "returned"]

\* Faulty variant of OnFailure: the error of the last attempt is raised.
OnFailureRaises(t, r) ==
    IF HasRetriesLeft(t.attempt)
    THEN [RecordFailure(t, r) EXCEPT !.pc = "retry_wait", !.sleeps = @ + 1]
    ELSE [RecordFailure(t, r) EXCEPT !.pc = "raised"]

\* Lines 87-108: the attempt failed; the retry delay is slept if retries are
\* left (lines 104-106), else the iteration ends.
OnFailure(t, r) ==
    IF HasRetriesLeft(t.attempt)
    THEN [RecordFailure(t, r) EXCEPT !.pc = "retry_wait", !.sleeps = @ + 1]
    ELSE EndIteration(RecordFailure(t, r))

\* The state of the coroutine after the remote call of its current attempt
\* ended with r.
AfterAttempt(t, r) ==
    IF TakesSuccessBranch(r) THEN OnSuccess(t, r) ELSE OnFailure(t, r)

\* asyncio.sleep(retry_delay) is over: the iteration ends.
NextAttempt(t) == EndIteration(t)

\* ------------------------------------------------------- process_batch
\* Positions (1-based, in all_payloads) of the items of the current batch.
BatchPositions == (i + 1)..(i + Len(batch))

\* A coroutine that returns is the next of its batch to have finished.
StampFinished(t) ==
    IF t.pc = "returned"
    THEN [t EXCEPT !.finished =
              Cardinality({j \in BatchPositions : tasks[j].pc = "returned"}) + 1]
    ELSE t

\* Faulty variant of CanAcquire: one permit too many.
CanAcquireOneMore == semaphore >= 0

\* asyncio.Semaphore.acquire returns without waiting.
CanAcquire == semaphore > 0

\* Faulty variant of ReleasesPermit: the permit is given back for the time of
\* a retry delay.
ReleasesPermitWhileWaiting(t) == t.pc \in {"returned", "retry_wait"}

\* The coroutine leaves `async with semaphore`, which is when
\* send_request_with_retry has returned.
ReleasesPermit(t) == t.pc = "returned"

\* Faulty variant of BatchComplete: the wait ends with the first coroutine that returns.
BatchCompleteFirst == \E j \in BatchPositions : tasks[j].pc = "returned"

\* Faulty variant of BatchComplete: the wait ends once every coroutine has
\* passed the semaphore.
BatchCompleteNoneQueued == \A j \in BatchPositions : tasks[j].pc # "queued"

\* `await asyncio.gather(*tasks)` returns: every coroutine of the batch has.
BatchComplete == \A j \in BatchPositions : tasks[j].pc = "returned"

\* Faulty variant of GatherResults: the return values in the order in which
\* the coroutines returned.
GatherResultsAsCompleted ==
    [k \in 1..Len(batch) |->
        tasks[CHOOSE j \in BatchPositions : tasks[j].finished = k]]

\* results of gather: the coroutines' return values, in task order.
GatherResults == [k \in 1..Len(batch) |-> tasks[i + k]]

\* Faulty variant of BatchResults: the filter of successful_results is applied.
BatchResultsSuccessfulOnly(results) ==
    LET F[k \in 0..Len(results)] ==
            IF k = 0 THEN <<>>
            ELSE IF results[k].success THEN Append(F[k - 1], results[k].detailed_result)
                 ELSE F[k - 1]
    IN  F[Len(results)]

\* batch_results = [r[2] for r in results]
BatchResults(results) == [k \in 1..Len(results) |-> results[k].detailed_result]

\* Faulty variant of SuccessfulResults: the filter on the success flag is
\* missing.
SuccessfulResultsUnfiltered(results) == [k \in 1..Len(results) |-> results[k].result]

\* successful_results = [r[0] for r in results if r[1]]
SuccessfulResults(results) ==
    LET F[k \in 0..Len(results)] ==
            IF k = 0 THEN <<>>
            ELSE IF results[k].success THEN Append(F[k - 1], results[k].result)
                 ELSE F[k - 1]
    IN  F[Len(results)]

\* ---------------------------------------------------- process_all_leads
\* Faulty variant of BatchSlice: the slice ends one element early.
BatchSliceShort(payloads, offset, size) == Slice(payloads, offset, offset + size - 1)

\* batch = all_payloads[i:i + self.batch_size]
BatchSlice(payloads, offset, size) == Slice(payloads, offset, offset + size)

\* Faulty variant of MoreBatches: the sleep follows every batch.
MoreBatchesAlways == i < Len(all_payloads)

\* `if i + self.batch_size < total_leads`: another batch follows.
MoreBatches == i + batch_size < Len(all_payloads)

\* range(0, total_leads, self.batch_size) raises ValueError for a step of 0.
RangeRaises == batch_size = 0

\* Faulty variant of LoopExhausted: the loop also ends when nothing has
\* succeeded so far.
LoopExhaustedOrAllFailed ==
    \/ ~(batch_size > 0 /\ i < Len(all_payloads))
    \/ (total_processed > 0 /\ total_successful = 0)

\* range(0, total_leads, self.batch_size) has no element i: the range is past
\* its stop, or empty because the step is negative.
LoopExhausted == ~(batch_size > 0 /\ i < Len(all_payloads))

\* asyncio.Semaphore(value) raises ValueError for a negative value.
SemaphoreRaises == max_concurrent < 0

\* The final summary divides by total_leads.
SummaryRaises == Len(all_payloads) = 0

\* process_all_leads is called: lines 141-157.
CallProcessAllLeads ==
    /\ pc = "idle"
    /\ pc' = "loop"
    /\ i' = 0
    /\ batch_num' = 0
    /\ total_processed' = 0
    /\ total_successful' = 0
    /\ UNCHANGED <<config, pauses, all_results, raised, batch, plan, semaphore, tasks, appVars, sendVars>>

\* One iteration of the batch loop begins (lines 159-164) and process_batch
\* runs up to its gather (lines 116-129): the slice, a fresh semaphore and
\* one coroutine per item.
StartBatch ==
    /\ pc = "loop"
    /\ ~RangeRaises
    /\ ~LoopExhausted
    /\ ~SemaphoreRaises
    /\ LET b == BatchSlice(all_payloads, i, batch_size) IN
        /\ batch' = b
        /\ plan' = Append(plan, b)
        /\ tasks' = [j \in DOMAIN tasks |->
                        IF j \in (i + 1)..(i + Len(b))
                        THEN [NoTask(b[j - i]) EXCEPT !.pc = "queued"]
                        ELSE tasks[j]]
    /\ batch_num' = batch_num + 1
    /\ semaphore' = max_concurrent
    /\ pc' = "gather"
    /\ UNCHANGED <<config, pauses, all_results, raised, i, total_processed, total_successful, appVars, sendVars>>

\* A coroutine passes `async with semaphore` and sends its first request.
\* Coroutines reach the semaphore, and are woken from it, in task order.
Acquire(j) ==
    /\ pc = "gather"
    /\ j \in BatchPositions
    /\ tasks[j].pc = "queued"
    /\ \A k \in BatchPositions : k < j => tasks[k].pc # "queued"
    /\ CanAcquire
    /\ LET t == StampFinished(EnterRequest(tasks[j])) IN
        /\ tasks' = [tasks EXCEPT ![j] = t]
        /\ semaphore' = IF ReleasesPermit(t) THEN semaphore ELSE semaphore - 1
    /\ UNCHANGED <<config, pauses, all_results, pc, raised, i, batch_num, batch, plan,
                   total_processed, total_successful, appVars, sendVars>>

\* The remote call of a coroutine ends with r; a coroutine that returns
\* leaves `async with semaphore` and releases its permit.
Respond(j, r) ==
    /\ pc = "gather"
    /\ j \in BatchPositions
    /\ tasks[j].pc = "awaiting"
    /\ r \in remote
    /\ LET t == StampFinished(AfterAttempt(tasks[j], r)) IN
        /\ tasks' = [tasks EXCEPT ![j] = t]
        /\ semaphore' = IF ReleasesPermit(t) THEN semaphore + 1 ELSE semaphore
    /\ UNCHANGED <<config, pauses, all_results, pc, raised, i, batch_num, batch, plan,
                   total_processed, total_successful, appVars, sendVars>>

\* The retry sleep of a coroutine is over; a coroutine that returns
\* releases its permit.
RetryWake(j) ==
    /\ pc = "gather"
    /\ j \in BatchPositions
    /\ tasks[j].pc = "retry_wait"
    /\ LET t == StampFinished(NextAttempt(tasks[j])) IN
        /\ tasks' = [tasks EXCEPT ![j] = t]
        /\ semaphore' = IF ReleasesPermit(t) THEN semaphore + 1 ELSE semaphore
    /\ UNCHANGED <<config, pauses, all_results, pc, raised, i, batch_num, batch, plan,
                   total_processed, total_successful, appVars, sendVars>>

\* gather returns; the rest of process_batch (lines 131-137) and of the loop
\* body (lines 165-192) up to the inter-batch sleep.
FinishBatch ==
    /\ pc = "gather"
    /\ BatchComplete
    /\ LET results == GatherResults IN
        /\ all_results' = all_results \o BatchResults(results)
        /\ total_successful' = total_successful + Len(SuccessfulResults(results))
    /\ total_processed' = total_processed + Len(batch)
    /\ IF MoreBatches
       THEN pc' = "pause" /\ i' = i
       ELSE pc' = "loop" /\ i' = i + batch_size
    /\ UNCHANGED <<config, pauses, raised, batch_num, batch, plan, semaphore, tasks, appVars, sendVars>>

\* asyncio.sleep(2) between two batches is over.
PauseOver ==
    /\ pc = "pause"
    /\ pc' = "loop"
    /\ i' = i + batch_size
    /\ pauses' = pauses + 1
    /\ UNCHANGED <<config, all_results, raised, batch_num, batch, plan,
                   total_processed, total_successful, semaphore, tasks, appVars, sendVars>>

\* The loop is exhausted: the final summary (lines 194-206).
FinalSummary ==
    /\ pc = "loop"
    /\ ~RangeRaises
    /\ LoopExhausted
    /\ IF SummaryRaises
       THEN pc' = "raised" /\ raised' = "ZeroDivisionError"
       ELSE pc' = "done" /\ raised' = raised
    /\ UNCHANGED <<config, pauses, all_results, i, batch_num, batch, plan,
                   total_processed, total_successful, semaphore, tasks, appVars, sendVars>>

\* Line 159 with a batch size of 0: range raises before the first iteration.
BatchLoopRaises ==
    /\ pc = "loop"
    /\ RangeRaises
    /\ pc' = "raised"
    /\ raised' = "ValueError"
    /\ UNCHANGED <<config, pauses, all_results, i, batch_num, batch, plan,
                   total_processed, total_successful, semaphore, tasks, appVars, sendVars>>

\* Lines 159-160 and 116-118 with a negative max_concurrent: the first batch is sliced
\* and process_batch raises when it constructs its semaphore.
StartBatchRaises ==
    /\ pc = "loop"
    /\ ~RangeRaises
    /\ ~LoopExhausted
    /\ SemaphoreRaises
    /\ batch' = BatchSlice(all_payloads, i, batch_size)
    /\ plan' = Append(plan, batch')
    /\ batch_num' = batch_num + 1
    /\ pc' = "raised"
    /\ raised' = "ValueError"
    /\ UNCHANGED <<config, pauses, all_results, i, total_processed, total_successful,
                   semaphore, tasks, appVars, sendVars>>

\* process_all_leads is called a second time on the pipeline object whose
\* first call has completed: lines 141-157 again. self.all_results is
\* assigned in __init__ only (line 31), so it is left as it is.
Reinvoke(payloads) ==
    /\ pc = "done"
    /\ Len(all_results) = Len(all_payloads)
    /\ all_payloads' = payloads
    /\ tasks' = [j \in 1..Len(payloads) |-> NoTask(payloads[j])]
    /\ pc' = "loop"
    /\ i' = 0
    /\ batch_num' = 0
    /\ batch' = <<>>
    /\ plan' = <<>>
    /\ pauses' = 0
    /\ total_processed' = 0
    /\ total_successful' = 0
    /\ UNCHANGED <<batch_size, max_concurrent, max_retries, remote, all_results,
                   raised, semaphore, appVars, sendVars>>

\* What can end process_all_leads from outside, at one of its awaits: the
\* cancellation of its task (a BaseException) or an Exception thrown into it.
AbortKinds == {"CancelledError", "Exception"}

\* Exceptions that `except Exception` catches.
IsException(e) == e \in {"Exception", "ZeroDivisionError", "ValueError"}

\* process_all_leads is ended from outside while it awaits the gather of a
\* batch (line 129) or the sleep between two batches (line 192); nothing
\* in lines 116-192 catches it, so lines 131-133 do not run for that batch.
Abort ==
    /\ pc \in {"gather", "pause"}
    /\ pc' = "raised"
    /\ raised' \in AbortKinds
    /\ UNCHANGED <<config, pauses, all_results, i, batch_num, batch, plan,
                   total_processed, total_successful, semaphore, tasks, appVars, sendVars>>

\* ------------------------------------- app.py: the "Generate Emails" handler
\* max_concurrent the app constructs its pipeline with.
AppMaxConcurrent == 5

\* A Python dict as the sequence of its items, in insertion order.
DictPut(d, k, v) ==
    IF \E p \in 1..Len(d) : d[p].key = k
    THEN [p \in 1..Len(d) |-> IF d[p].key = k THEN [key |-> k, value |-> v] ELSE d[p]]
    ELSE Append(d, [key |-> k, value |-> v])

\* {r["lead_id"]: r for r in list}
DictByLeadId(list) ==
    LET F[n \in 0..Len(list)] ==
            IF n = 0 THEN <<>> ELSE DictPut(F[n - 1], list[n].lead_id, list[n])
    IN  F[Len(list)]

\* d.update(e)
DictUpdate(d, e) ==
    LET F[n \in 0..Len(e)] ==
            IF n = 0 THEN d ELSE DictPut(F[n - 1], e[n].key, e[n].value)
    IN  F[Len(e)]

\* list(d.values())
DictValues(d) == [p \in 1..Len(d) |-> d[p].value]

\* Faulty variant of ResumeMerge: the update goes the other way.
ResumeMergePriorWins(prior, new) ==
    DictValues(DictUpdate(DictByLeadId(new), DictByLeadId(prior)))

\* Lines 466-469: existing_results.update(new_results), as a list.
ResumeMerge(prior, new) ==
    DictValues(DictUpdate(DictByLeadId(prior), DictByLeadId(new)))

\* Lines 463-473: process_all_leads returned; the handler stores the results.
AppStoreResults ==
    /\ app_pc = "running"
    /\ pc = "done"
    /\ generated_emails' =
          IF resume_generation /\ generated_emails # <<>>
          THEN ResumeMerge(generated_emails, all_results)
          ELSE all_results
    /\ app_pc' = "completed"
    /\ UNCHANGED <<config, pauses, all_results, pc, raised, i, batch_num, batch, plan,
                   total_processed, total_successful, semaphore, tasks,
                   prior_emails, resume_generation, sendVars>>

\* Lines 491-496: process_all_leads raised. An Exception is caught and
\* pipeline.all_results, if not empty, is stored; a BaseException passes
\* the handler.
AppExcept ==
    /\ app_pc = "running"
    /\ pc = "raised"
    /\ IF IsException(raised)
       THEN /\ generated_emails' =
                  IF all_results # <<>> THEN all_results ELSE generated_emails
            /\ app_pc' = "failed"
       ELSE /\ generated_emails' = generated_emails
            /\ app_pc' = "propagated"
    /\ UNCHANGED <<config, pauses, all_results, pc, raised, i, batch_num, batch, plan,
                   total_processed, total_successful, semaphore, tasks,
                   prior_emails, resume_generation, sendVars>>

\* ------------------------------------------------- email_sender.py: EmailSender
\* A missing value of a DataFrame cell, and pd.isna / Series.notna.
NaN == "NaN"
IsNa(v) == v = NaN
NotNa(v) == v # NaN

SendColumns == {"email_id", "email_subject", "email_body"}

\* `all(col in df.columns for col in [...])` of send_emails and
\* get_sending_status.
HasSendColumns(frame) == SendColumns \subseteq frame.columns

\* Series.notna().sum() over one column.
NotNaSum(rows, col) ==
    LET F[n \in 0..Len(rows)] ==
            IF n = 0 THEN 0
            ELSE F[n - 1] + (IF NotNa(rows[n][col]) THEN 1 ELSE 0)
    IN  F[Len(rows)]

\* Python's min of three numbers.
Min3(a, b, c) == Min(a, Min(b, c))

\* Faulty variant of SendingStatus: ready_to_send counts the rows that have
\* all three cells.
SendingStatusCompleteRows(frame) ==
    [total_leads |-> Len(frame.rows),
     valid_emails |-> NotNaSum(frame.rows, "email_id"),
     valid_subjects |-> NotNaSum(frame.rows, "email_subject"),
     valid_bodies |-> NotNaSum(frame.rows, "email_body"),
     ready_to_send |-> Cardinality({n \in 1..Len(frame.rows) :
                          \A col \in SendColumns : NotNa(frame.rows[n][col])})]

\* Lines 118-129: the dict get_sending_status returns.
SendingStatus(frame) ==
    [total_leads |-> Len(frame.rows),
     valid_emails |-> NotNaSum(frame.rows, "email_id"),
     valid_subjects |-> NotNaSum(frame.rows, "email_subject"),
     valid_bodies |-> NotNaSum(frame.rows, "email_body"),
     ready_to_send |-> Min3(NotNaSum(frame.rows, "email_id"),
                            NotNaSum(frame.rows, "email_subject"),
                            NotNaSum(frame.rows, "email_body"))]

\* get_sending_status(df) is called: it raises on a missing column, else
\* returns the statistics.
GetSendingStatus ==
    /\ sending_status = <<>>
    /\ sending_status' = IF HasSendColumns(df) THEN <<SendingStatus(df)>>
                                               ELSE <<"ValueError">>
    /\ UNCHANGED <<pipelineVars, df, sender_batch_size, send_pc, batches,
                   send_tasks, send_results>>

\* The summary as send_emails creates it (lines 68-74) for n payloads; the
\* timestamp is left out.
NewSendResults(n) ==
    [total_emails |-> n, successful |-> 0, failed |-> 0, errors |-> <<>>]

NoSendResults == NewSendResults(0)

\* Faulty variant of EmailPayloads: a row is skipped only when all three cells
\* are missing.
EmailPayloadsSkipsOnlyEmpty(frame) ==
    LET F[n \in 0..Len(frame.rows)] ==
            IF n = 0 THEN <<>>
            ELSE LET row == frame.rows[n] IN
                 IF IsNa(row.email_id) /\ IsNa(row.email_subject) /\ IsNa(row.email_body)
                 THEN F[n - 1]
                 ELSE Append(F[n - 1], [email |-> <<row.email_id>>,
                                        subject |-> row.email_subject,
                                        body |-> row.email_body])
    IN  F[Len(frame.rows)]

\* Faulty variant of EmailPayloads: the payloads are collected in reverse row
\* order.
EmailPayloadsReversed(frame) ==
    LET F[n \in 0..Len(frame.rows)] ==
            IF n = 0 THEN <<>>
            ELSE LET row == frame.rows[n] IN
                 IF IsNa(row.email_id) \/ IsNa(row.email_subject) \/ IsNa(row.email_body)
                 THEN F[n - 1]
                 ELSE <<[email |-> <<row.email_id>>,
                         subject |-> row.email_subject,
                         body |-> row.email_body]>> \o F[n - 1]
    IN  F[Len(frame.rows)]

\* Lines 52-61: one payload per row that has all three cells.
EmailPayloads(frame) ==
    LET F[n \in 0..Len(frame.rows)] ==
            IF n = 0 THEN <<>>
            ELSE LET row == frame.rows[n] IN
                 IF IsNa(row.email_id) \/ IsNa(row.email_subject) \/ IsNa(row.email_body)
                 THEN F[n - 1]
                 ELSE Append(F[n - 1], [email |-> <<row.email_id>>,
                                        subject |-> row.email_subject,
                                        body |-> row.email_body])
    IN  F[Len(frame.rows)]

\* An entry of the list the send endpoint answers with; error = None stands
\* for an entry without the key "error".
SentEntry == [error |-> None, status_code |-> 200]
RejectedEntry == [error |-> "Invalid address", status_code |-> 200]

\* The answers of the send endpoint to the request of one batch. body tells
\* how response.json() fares: "list" parses to entries, "null" to None.
SendAccepted(b) ==
    [kind |-> "http", status |-> 200, body |-> "list",
     entries |-> [k \in 1..Len(b) |-> SentEntry]]
SendRejectedFirst(b) ==
    [kind |-> "http", status |-> 200, body |-> "list",
     entries |-> [k \in 1..Len(b) |-> IF k = 1 THEN RejectedEntry ELSE SentEntry]]
SendNull == [kind |-> "http", status |-> 200, body |-> "null", entries |-> <<>>]
SendHttp500 ==
    [kind |-> "http", status |-> 500, body |-> "Internal Server Error", entries |-> <<>>]
SendTimeout == [kind |-> "timeout", status |-> 0, body |-> "", entries |-> <<>>]
SendConnectionError ==
    [kind |-> "exception", status |-> 0, body |-> "Cannot connect to host", entries |-> <<>>]

\* Failures of the request of a batch as a whole.
SendBatchFailures == {SendHttp500, SendTimeout, SendConnectionError}

SendResponses(b) ==
    {SendAccepted(b), SendRejectedFirst(b), SendNull} \cup SendBatchFailures

\* f"Failed to send batch: {error_text}"
FailedToSend(error_text) ==
    IF error_text = "Internal Server Error"
    THEN "Failed to send batch: Internal Server Error"
    ELSE "Failed to send batch: "

\* Lines 23-34: what send_email_batch returns for the answer r. iterable tells
\* whether the value can be iterated (None cannot).
SendBatchResult(r) ==
    CASE r.kind = "http" /\ r.status = 200 /\ r.body = "list" ->
            [iterable |-> TRUE, entries |-> r.entries]
      [] r.kind = "http" /\ r.status = 200 ->
            [iterable |-> FALSE, entries |-> <<>>]
      [] r.kind = "http" ->
            [iterable |-> TRUE,
             entries |-> <<[error |-> FailedToSend(r.body), status_code |-> r.status]>>]
      [] OTHER ->
            [iterable |-> TRUE, entries |-> <<[error |-> r.body, status_code |-> 500]>>]

\* The coroutine send_email_batch of one batch, as created at line 79.
\* calls: the answers its requests got.
NewSendTask ==
    [pc |-> "created", calls |-> <<>>, result |-> [iterable |-> TRUE, entries |-> <<>>]]

\* Faulty variant of AfterSendAttempt: a failed request is sent once more.
AfterSendAttemptRetries(t, r) ==
    IF r \in SendBatchFailures /\ t.calls = <<>>
    THEN [t EXCEPT !.calls = Append(@, r)]
    ELSE [t EXCEPT !.pc = "returned", !.calls = Append(@, r),
                   !.result = SendBatchResult(r)]

\* Lines 24-34: the request of the batch ended with r; send_email_batch
\* returns.
AfterSendAttempt(t, r) ==
    [t EXCEPT !.pc = "returned", !.calls = Append(@, r),
              !.result = SendBatchResult(r)]

\* Faulty variant of TallyBatch: a failed entry is counted but its error
\* string is not kept.
TallyBatchDropsErrorString(res, batch_result) ==
    LET F[n \in 0..Len(batch_result.entries)] ==
            IF n = 0 THEN res
            ELSE IF batch_result.entries[n].error # None
                 THEN [F[n - 1] EXCEPT !.failed = @ + 1]
                 ELSE [F[n - 1] EXCEPT !.successful = @ + 1]
    IN  F[Len(batch_result.entries)]

\* Lines 86-91 for one batch_result.
TallyBatch(res, batch_result) ==
    LET F[n \in 0..Len(batch_result.entries)] ==
            IF n = 0 THEN res
            ELSE IF batch_result.entries[n].error # None
                 THEN [F[n - 1] EXCEPT !.failed = @ + 1,
                                       !.errors = Append(@, batch_result.entries[n].error)]
                 ELSE [F[n - 1] EXCEPT !.successful = @ + 1]
    IN  F[Len(batch_result.entries)]

\* Faulty variant of Tally: the tally stops at the first batch with an error.
TallyStopsAtError(res, batch_results) ==
    LET F[n \in 0..Len(batch_results)] ==
            IF n = 0 THEN [res |-> res, stopped |-> FALSE]
            ELSE IF F[n - 1].stopped THEN F[n - 1]
            ELSE IF ~batch_results[n].iterable
                 THEN [res |-> [F[n - 1].res EXCEPT !.errors = Append(@, "TypeError")],
                       stopped |-> TRUE]
                 ELSE [res |-> TallyBatch(F[n - 1].res, batch_results[n]),
                       stopped |-> \E k \in 1..Len(batch_results[n].entries) :
                                      batch_results[n].entries[k].error # None]
    IN  F[Len(batch_results)].res

\* Lines 85-91 and 100-103: the batch results are tallied in order; a
\* batch_result that cannot be iterated raises TypeError, which ends the
\* tally with str(e) appended to the errors.
Tally(res, batch_results) ==
    LET F[n \in 0..Len(batch_results)] ==
            IF n = 0 THEN [res |-> res, stopped |-> FALSE]
            ELSE IF F[n - 1].stopped THEN F[n - 1]
            ELSE IF ~batch_results[n].iterable
                 THEN [res |-> [F[n - 1].res EXCEPT !.errors = Append(@, "TypeError")],
                       stopped |-> TRUE]
                 ELSE [res |-> TallyBatch(F[n - 1].res, batch_results[n]),
                       stopped |-> FALSE]
    IN  F[Len(batch_results)].res

\* send_emails(df) is called: lines 46-79. It raises on a missing column;
\* else it builds the payloads, the batches, the summary and one coroutine
\* per batch, and awaits their gather.
CallSendEmails ==
    /\ send_pc = "idle"
    /\ IF ~HasSendColumns(df)
       THEN /\ send_pc' = "raised"
            /\ UNCHANGED <<batches, send_tasks, send_results>>
       ELSE /\ batches' = SendEmailsBatches(EmailPayloads(df), sender_batch_size)
            /\ send_results' = NewSendResults(Len(EmailPayloads(df)))
            /\ send_tasks' = [b \in 1..Len(batches') |-> NewSendTask]
            /\ send_pc' = "gather"
    /\ UNCHANGED <<pipelineVars, df, sender_batch_size, sending_status>>

\* The coroutine of batch b runs to its session.post (line 24); gather
\* starts the coroutines in task order.
SendPost(b) ==
    /\ send_pc = "gather"
    /\ b \in DOMAIN send_tasks
    /\ send_tasks[b].pc = "created"
    /\ \A c \in DOMAIN send_tasks : c < b => send_tasks[c].pc # "created"
    /\ send_tasks' = [send_tasks EXCEPT ![b].pc = "in_flight"]
    /\ UNCHANGED <<pipelineVars, df, sender_batch_size, send_pc, batches,
                   send_results, sending_status>>

\* The request of batch b ends with r.
SendRespond(b, r) ==
    /\ send_pc = "gather"
    /\ b \in DOMAIN send_tasks
    /\ send_tasks[b].pc = "in_flight"
    /\ r \in SendResponses(batches[b])
    /\ send_tasks' = [send_tasks EXCEPT ![b] = AfterSendAttempt(@, r)]
    /\ UNCHANGED <<pipelineVars, df, sender_batch_size, send_pc, batches,
                   send_results, sending_status>>

\* gather returns (line 82); lines 85-103: the tally, and send_emails
\* returns the summary.
SendTally ==
    /\ send_pc = "gather"
    /\ \A b \in DOMAIN send_tasks : send_tasks[b].pc = "returned"
    /\ send_results' = Tally(send_results, [b \in DOMAIN send_tasks |-> send_tasks[b].result])
    /\ send_pc' = "done"
    /\ UNCHANGED <<pipelineVars, df, sender_batch_size, batches, send_tasks,
                   sending_status>>

\* EmailSender constructed, nothing called on it yet.
SenderConstructed ==
    /\ send_pc = "idle"
    /\ batches = <<>>
    /\ send_tasks = <<>>
    /\ send_results = NoSendResults
    /\ sending_status = <<>>

\* No EmailSender is in use.
NoDispatch ==
    /\ df = [columns |-> {}, rows |-> <<>>]
    /\ sender_batch_size = 0
    /\ SenderConstructed

\* ---------------------------------------------------------- specifications
PayloadsOf(ids) == [k \in 1..Len(ids) |-> Payload(ids[k])]

\* The answers of the remote service in the runs of several items.
PipelineResponses ==
    {[kind |-> "http", status |-> 200, body |-> "{email_A}"], Http500Response}

\* The pipeline object after construction, process_all_leads not yet called.
Constructed ==
    /\ all_results = <<>>
    /\ pc = "idle"
    /\ raised = None
    /\ i = 0
    /\ batch_num = 0
    /\ batch = <<>>
    /\ plan = <<>>
    /\ pauses = 0
    /\ total_processed = 0
    /\ total_successful = 0
    /\ semaphore = 0
    /\ tasks = [j \in 1..Len(all_payloads) |-> NoTask(all_payloads[j])]

\* process_all_leads called directly, with a well-formed configuration.
Init ==
    /\ batch_size \in 1..MaxBatchSize
    /\ max_concurrent \in 1..MaxConcurrent
    /\ max_retries \in 0..MaxRetries
    /\ remote = PipelineResponses
    /\ all_payloads \in {PayloadsOf(s) : s \in InjectiveSeqs(LeadIds, MaxLeads)}
    /\ Constructed
    /\ generated_emails = <<>>
    /\ prior_emails = <<>>
    /\ resume_generation = FALSE
    /\ app_pc = "none"
    /\ NoDispatch

Next ==
    \/ CallProcessAllLeads
    \/ StartBatch
    \/ \E j \in DOMAIN tasks : Acquire(j)
    \/ \E j \in DOMAIN tasks : \E r \in remote : Respond(j, r)
    \/ \E j \in DOMAIN tasks : RetryWake(j)
    \/ FinishBatch
    \/ PauseOver
    \/ FinalSummary

Spec == Init /\ [][Next]_vars

\* One item, every answer the remote service can give.
RetryInit ==
    /\ batch_size = 1
    /\ max_concurrent = 1
    /\ max_retries \in 0..MaxItemRetries
    /\ remote = AllResponses
    /\ all_payloads \in {PayloadsOf(<<id>>) : id \in LeadIds}
    /\ Constructed
    /\ generated_emails = <<>>
    /\ prior_emails = <<>>
    /\ resume_generation = FALSE
    /\ app_pc = "none"
    /\ NoDispatch

RetryNext ==
    \/ CallProcessAllLeads
    \/ StartBatch
    \/ \E j \in DOMAIN tasks : Acquire(j)
    \/ \E j \in DOMAIN tasks : \E r \in remote : Respond(j, r)
    \/ \E j \in DOMAIN tasks : RetryWake(j)
    \/ FinishBatch
    \/ FinalSummary

SpecRetry == RetryInit /\ [][RetryNext]_vars

\* Outcome records of an earlier run, as stored in the session.
PriorSuccess(id) ==
    [NewDetailedResult(Payload(id)) EXCEPT
        !.status = "success", !.final_result = "email_B",
        !.attempts = <<AttemptInfo(0, "success", None, Payload(id))>>]

PriorFailed(id) ==
    [NewDetailedResult(Payload(id)) EXCEPT
        !.error = "Timeout",
        !.attempts = <<AttemptInfo(0, "failed", "Timeout", Payload(id))>>]

ResumeLeadIds == {"L1", "L2", "L3"}

PriorLists ==
    UNION {{l \in [1..Len(s) -> {PriorSuccess(id) : id \in ResumeLeadIds} \cup
                                {PriorFailed(id) : id \in ResumeLeadIds}] :
                \A k \in 1..Len(s) : l[k].lead_id = s[k]} :
           s \in InjectiveSeqs(ResumeLeadIds, MaxPrior)}

\* Smallest "Max Retries" the app's form accepts.
AppMinRetries == 1

\* The handler of "Generate Emails" has built a non-empty payload list (it
\* stops on an empty one), constructed its pipeline and is about to run it.
ResumeInit ==
    /\ batch_size \in 1..MaxBatchSize
    /\ max_concurrent = AppMaxConcurrent
    /\ max_retries = AppMinRetries
    /\ remote = PipelineResponses
    /\ all_payloads \in {PayloadsOf(s) : s \in InjectiveSeqs(ResumeLeadIds, MaxResumeLeads)}
    /\ all_payloads # <<>>
    /\ Constructed
    /\ generated_emails \in PriorLists
    /\ prior_emails = generated_emails
    /\ resume_generation \in (IF generated_emails # <<>> THEN BOOLEAN ELSE {FALSE})
    /\ app_pc = "running"
    /\ NoDispatch

ResumeNext ==
    \/ Next
    \/ AppStoreResults

SpecResume == ResumeInit /\ [][ResumeNext]_vars

\* The handler's run, which may be ended from outside.
AbortNext ==
    \/ ResumeNext
    \/ Abort
    \/ AppExcept

SpecAbort == ResumeInit /\ [][AbortNext]_vars

\* The failures of one attempt, and one answer that succeeds.
FailureResponses == {Http500Response, TimeoutResponse, TransportError}

FailLeadIds == <<"L1", "L2", "L3", "L4">>

\* One batch of MaxFailLeads items, each attempt of each item failing in any
\* of the ways or succeeding.
FailuresInit ==
    /\ batch_size = MaxFailLeads
    /\ max_concurrent \in {1, MaxConcurrent}
    /\ max_retries \in 0..MaxRetries
    /\ remote = FailureResponses \cup {[kind |-> "http", status |-> 200, body |-> "{email_A}"]}
    /\ all_payloads = PayloadsOf(SubSeq(FailLeadIds, 1, MaxFailLeads))
    /\ Constructed
    /\ generated_emails = <<>>
    /\ prior_emails = <<>>
    /\ resume_generation = FALSE
    /\ app_pc = "none"
    /\ NoDispatch

SpecFailures == FailuresInit /\ [][RetryNext]_vars

\* Values a caller can pass for batch_size, max_concurrent and max_retries:
\* the constructor (lines 18-31) stores whatever it is given.
ConfigValues == {-1, 0, 1}

Malformed == batch_size < 1 \/ max_concurrent < 1 \/ max_retries < 0

\* process_all_leads called directly on a pipeline constructed with any
\* configuration.
ConfigInit ==
    /\ batch_size \in ConfigValues
    /\ max_concurrent \in ConfigValues
    /\ max_retries \in ConfigValues
    /\ remote = PipelineResponses
    /\ all_payloads \in {PayloadsOf(SubSeq(FailLeadIds, 1, n)) : n \in 0..MaxFailLeads}
    /\ Constructed
    /\ generated_emails = <<>>
    /\ prior_emails = <<>>
    /\ resume_generation = FALSE
    /\ app_pc = "none"
    /\ NoDispatch

ConfigNext ==
    \/ Next
    \/ BatchLoopRaises
    \/ StartBatchRaises

SpecConfig == ConfigInit /\ [][ConfigNext]_vars

\* Payload lists of the second call: a lead of the first call, or a new one.
SecondCallPayloads == {PayloadsOf(<<id>>) : id \in {"L1", "L3"}}

\* A pipeline object on which process_all_leads is called directly, twice.
ReuseInit ==
    /\ batch_size \in 1..MaxBatchSize
    /\ max_concurrent = MaxConcurrent
    /\ max_retries \in 0..MaxRetries
    /\ remote = PipelineResponses
    /\ all_payloads \in {PayloadsOf(SubSeq(FailLeadIds, 1, n)) : n \in 1..MaxFailLeads}
    /\ Constructed
    /\ generated_emails = <<>>
    /\ prior_emails = <<>>
    /\ resume_generation = FALSE
    /\ app_pc = "none"
    /\ NoDispatch

ReuseNext ==
    \/ Next
    \/ \E payloads \in SecondCallPayloads : Reinvoke(payloads)

SpecReuse == ReuseInit /\ [][ReuseNext]_vars

\* The scenario of twelve items in batches of five, three at a time, one
\* retry, the endpoint answering HTTP 500 to every call.
ScenarioLeadIds ==
    <<"S01", "S02", "S03", "S04", "S05", "S06", "S07", "S08", "S09", "S10", "S11", "S12">>

ScenarioInit ==
    /\ batch_size = 5
    /\ max_concurrent = 3
    /\ max_retries = 1
    /\ remote = {Http500Response}
    /\ all_payloads = PayloadsOf(ScenarioLeadIds)
    /\ Constructed
    /\ generated_emails = <<>>
    /\ prior_emails = <<>>
    /\ resume_generation = FALSE
    /\ app_pc = "none"
    /\ NoDispatch

SpecScenario == ScenarioInit /\ [][Next]_vars

\* The pipeline and the app's handler are not in use.
NoPipeline ==
    /\ batch_size = 1
    /\ max_concurrent = 1
    /\ max_retries = 0
    /\ remote = {}
    /\ all_payloads = <<>>
    /\ Constructed
    /\ generated_emails = <<>>
    /\ prior_emails = <<>>
    /\ resume_generation = FALSE
    /\ app_pc = "none"

\* The cells of a DataFrame: a value or NaN in each of the three columns.
CellValues == [email_id : {"a@x.org", NaN}, email_subject : {"Hello", NaN},
               email_body : {"Text", NaN}]

\* Every DataFrame of at most MaxRows rows, with or without the column
\* email_body.
StatusInit ==
    /\ df \in [columns : {SendColumns, SendColumns \ {"email_body"}},
               rows : UNION {[1..n -> CellValues] : n \in 0..MaxRows}]
    /\ sender_batch_size = 1
    /\ SenderConstructed
    /\ NoPipeline

StatusNext == GetSendingStatus

SpecStatus == StatusInit /\ [][StatusNext]_vars

\* Rows of the DataFrames given to send_emails: two complete rows and one
\* without a subject.
SendRows ==
    {[email_id |-> "a@x.org", email_subject |-> "Hello", email_body |-> "Text"],
     [email_id |-> "b@y.org", email_subject |-> NaN, email_body |-> "Text"],
     [email_id |-> "c@z.org", email_subject |-> "Offer", email_body |-> "More"]}

\* send_emails called on a DataFrame of at most MaxSendRows rows, or on one
\* without the column email_body.
SendInit ==
    /\ df \in [columns : {SendColumns},
               rows : UNION {[1..n -> SendRows] : n \in 0..MaxSendRows}]
              \cup {[columns |-> SendColumns \ {"email_body"}, rows |-> <<>>]}
    /\ sender_batch_size \in 1..MaxSendBatchSize
    /\ SenderConstructed
    /\ NoPipeline

SendNext ==
    \/ CallSendEmails
    \/ \E b \in DOMAIN send_tasks : SendPost(b)
    \/ \E b \in DOMAIN send_tasks : \E r \in SendResponses(batches[b]) : SendRespond(b, r)
    \/ SendTally

SpecSend == SendInit /\ [][SendNext]_vars

\* ------------------------------------------------------------- properties
Positions == DOMAIN tasks

\* Items with a remote call outstanding.
Outstanding == {j \in Positions : tasks[j].pc = "awaiting"}

\* Items whose coroutine has returned, and their outcome records.
Returned == {j \in Positions : tasks[j].pc = "returned"}
Outcome(j) == tasks[j].detailed_result
NumAttempts(j) == Len(Outcome(j).attempts)

\* The remote call answered with a well-formed success response.
IsSuccessResponse(r) == r.kind = "http" /\ r.status = 200 /\ r.body \in JsonTexts

\* Batch (1-based) that input position j belongs to when batches have size b.
BatchIndex(j, b) == ((j - 1) \div b) + 1

CeilDiv(n, b) == (n + b - 1) \div b

RECURSIVE Concat(_)
Concat(ss) == IF ss = <<>> THEN <<>> ELSE Head(ss) \o Concat(Tail(ss))

LeadIdsOf(list) == {list[k].lead_id : k \in 1..Len(list)}
RecordsOf(list, id) == {k \in 1..Len(list) : list[k].lead_id = id}

\* C1: at most max_concurrent items of a batch have a remote call outstanding.
C1_ConcurrencyCap == Cardinality(Outstanding) <= max_concurrent

\* C1 witness: the cap is reached while another item of the batch waits for a permit.
C1_CapBinding ==
    /\ Cardinality(Outstanding) = max_concurrent
    /\ \E j \in Positions : tasks[j].pc = "queued"

\* C2 as stated: 1 <= attempts <= max_retries + 1, and attempts = max_retries + 1
\* only if the status is failed.
C2_AsStated ==
    \A j \in Returned :
        /\ 1 <= NumAttempts(j) /\ NumAttempts(j) <= max_retries + 1
        /\ NumAttempts(j) = max_retries + 1 => Outcome(j).status = "failed"

\* C2 amended: 1 <= attempts <= max_retries + 1, and a failed record has
\* exactly max_retries + 1 attempts (fewer only if the status is success).
C2_AttemptBounds ==
    \A j \in Returned :
        /\ 1 <= NumAttempts(j) /\ NumAttempts(j) <= max_retries + 1
        /\ Outcome(j).status = "failed" => NumAttempts(j) = max_retries + 1
        /\ NumAttempts(j) < max_retries + 1 => Outcome(j).status = "success"

\* C2 witness: a failed record whose retries were all used.
C2_FailedAfterRetries ==
    \E j \in Returned :
        /\ max_retries >= 1
        /\ Outcome(j).status = "failed"
        /\ NumAttempts(j) = max_retries + 1

\* C3: a success record has exactly one success attempt, the last one; all
\* earlier attempts are failed.
C3_SuccessAttemptIsLast ==
    \A j \in Returned :
        Outcome(j).status = "success" =>
            LET a == Outcome(j).attempts IN
            /\ Len(a) >= 1
            /\ a[Len(a)].status = "success"
            /\ \A n \in 1..(Len(a) - 1) : a[n].status = "failed"
            /\ Cardinality({n \in 1..Len(a) : a[n].status = "success"}) = 1

\* C3 witness: a success record with failed attempts before the success.
C3_SuccessAfterFailures ==
    \E j \in Returned :
        /\ Outcome(j).status = "success"
        /\ NumAttempts(j) >= 2

\* The batch plan property of C4 for a plan p of the list with batch size b.
IsBatchPlan(p, list, b) ==
    /\ Len(p) = CeilDiv(Len(list), b)
    /\ \A n \in 1..(Len(p) - 1) : Len(p[n]) = b
    /\ Len(p) >= 1 => (1 <= Len(p[Len(p)]) /\ Len(p[Len(p)]) <= b)
    /\ Concat(p) = list

\* C4: the batches process_all_leads has built when it ends, and the batches
\* send_emails builds from the same list and size, are ceil(N/B) batches, all
\* but the last of size B, whose concatenation is the input.
C4_BatchPlan ==
    /\ pc \in {"done", "raised"} => IsBatchPlan(plan, all_payloads, batch_size)
    /\ IsBatchPlan(SendEmailsBatches(all_payloads, batch_size), all_payloads, batch_size)

\* C4 witness: a finished run of several batches whose last batch is shorter.
C4_ShortLastBatch ==
    /\ pc = "done"
    /\ Len(plan) >= 2
    /\ Len(plan[Len(plan)]) < batch_size
    /\ SendEmailsBatches(all_payloads, batch_size) = plan

\* C5: an item has started its first attempt only if every item of every
\* earlier batch has returned its outcome record.
C5_BatchesSequential ==
    \A j, k \in Positions :
        (/\ BatchIndex(j, batch_size) < BatchIndex(k, batch_size)
         /\ tasks[k].pc \in {"awaiting", "retry_wait", "returned"})
        => tasks[j].pc = "returned"

\* C5 witness: an item of the second batch is in flight after a first batch
\* of several items.
C5_SecondBatchInFlight ==
    /\ batch_size >= 2
    /\ \E k \in Positions :
        /\ BatchIndex(k, batch_size) = 2
        /\ tasks[k].pc = "awaiting"

\* C6: after a completed run over distinct identifiers, all_results holds
\* exactly one record per submitted identifier and no other record.
C6_OneRecordPerLead ==
    (/\ pc = "done"
     /\ \A a, b \in 1..Len(all_payloads) :
            a # b => all_payloads[a].lead_id # all_payloads[b].lead_id)
    => /\ Len(all_results) = Len(all_payloads)
       /\ LeadIdsOf(all_results) = LeadIdsOf(all_payloads)
       /\ \A id \in LeadIdsOf(all_payloads) : Cardinality(RecordsOf(all_results, id)) = 1

\* C6 witness: a completed run of several batches with failed and successful items.
C6_CompletedMixedRun ==
    /\ pc = "done"
    /\ Len(plan) >= 2
    /\ \E a, b \in 1..Len(all_results) :
        all_results[a].status = "success" /\ all_results[b].status = "failed"

\* C7: the merged list has the identifiers of both lists, once each; an
\* identifier only in the prior list keeps its prior record; an identifier
\* of the new run carries the new record, attempts included.
C7_ResumeMerge ==
    (app_pc = "completed" /\ resume_generation /\ prior_emails # <<>>)
    => /\ LeadIdsOf(generated_emails) = LeadIdsOf(prior_emails) \cup LeadIdsOf(all_results)
       /\ \A id \in LeadIdsOf(generated_emails) :
            Cardinality(RecordsOf(generated_emails, id)) = 1
       /\ \A k \in 1..Len(generated_emails) :
            LET rec == generated_emails[k] IN
            IF rec.lead_id \in LeadIdsOf(all_results)
            THEN \E n \in 1..Len(all_results) : all_results[n] = rec
            ELSE \E n \in 1..Len(prior_emails) : prior_emails[n] = rec

\* C7 witness: a merge with an identifier only in the prior list, one only
\* in the new run, and one in both whose record changed.
C7_MergeOverlap ==
    /\ app_pc = "completed" /\ resume_generation
    /\ LeadIdsOf(prior_emails) \ LeadIdsOf(all_results) # {}
    /\ LeadIdsOf(all_results) \ LeadIdsOf(prior_emails) # {}
    /\ \E a \in 1..Len(prior_emails) : \E b \in 1..Len(all_results) :
        /\ prior_emails[a].lead_id = all_results[b].lead_id
        /\ prior_emails[a] # all_results[b]

\* C8: a success response is the last call made for its item: the coroutine
\* has returned, no attempt follows, and final_result is that response's body.
C8_SuccessEndsItem ==
    \A j \in Positions :
        \A n \in 1..Len(tasks[j].calls) :
            IsSuccessResponse(tasks[j].calls[n]) =>
                /\ n = Len(tasks[j].calls)
                /\ tasks[j].pc = "returned"
                /\ NumAttempts(j) = n
                /\ Outcome(j).final_result = ParseJson(tasks[j].calls[n].body)

\* C8 witness: an item that succeeded on a retry, with retries still left.
C8_SuccessWithRetriesLeft ==
    \E j \in Returned :
        /\ Len(tasks[j].calls) = 2
        /\ max_retries >= 2
        /\ IsSuccessResponse(tasks[j].calls[2])
        /\ tasks[j].calls[2].body = "{email_B}"
        /\ Outcome(j).final_result = "email_B"

\* C9: if all max_retries + 1 attempts failed, the record is failed, has no
\* final_result, and its error is the error of the last attempt record.
C9_ExhaustedIsFailed ==
    \A j \in Positions :
        (/\ Len(tasks[j].calls) = max_retries + 1
         /\ \A n \in 1..Len(tasks[j].calls) : ~IsSuccessResponse(tasks[j].calls[n]))
        => /\ tasks[j].pc = "returned"
           /\ Outcome(j).status = "failed"
           /\ Outcome(j).final_result = None
           /\ NumAttempts(j) = max_retries + 1
           /\ Outcome(j).error = Outcome(j).attempts[NumAttempts(j)].error
           /\ Outcome(j).error = ErrorMsg(tasks[j].calls[max_retries + 1])

\* C9 witness: all attempts failed, the first and the last with different errors.
C9_ExhaustedDifferentErrors ==
    \E j \in Returned :
        /\ Outcome(j).status = "failed"
        /\ NumAttempts(j) >= 2
        /\ Outcome(j).attempts[1].error # Outcome(j).attempts[NumAttempts(j)].error

\* C10 as stated: on an empty input process_all_leads ends normally, without
\* a remote call and without raising, and the result set is empty.
C10_EmptyInputCompletes ==
    (all_payloads = <<>> /\ pc \in {"done", "raised"})
    => /\ pc = "done"
       /\ raised = None
       /\ all_results = <<>>
       /\ plan = <<>>

\* C11: when process_all_leads is ended from outside, every item whose
\* outcome record was complete at that moment (its coroutine had returned),
\* items of the interrupted batch included, is in the pipeline's result set.
C11_AbortKeepsCompleted ==
    (pc = "raised" /\ raised \in AbortKinds) =>
        \A j \in Returned :
            \E k \in 1..Len(all_results) : all_results[k] = Outcome(j)

\* C12: a failure of an attempt (non-200 status, timeout, transport error) is
\* written into the item's outcome record and nothing is raised: an item
\* whose attempts all failed returns a failed record with the last error,
\* process_batch returns, and every item of the batch has its own record.
C12_FailuresCaptured ==
    /\ raised = None /\ pc # "raised"
    /\ \A j \in Positions :
        /\ tasks[j].pc \in {"unscheduled", "queued", "awaiting", "retry_wait", "returned"}
        /\ \A k \in 1..Len(tasks[j].calls) :
              tasks[j].calls[k] \in FailureResponses =>
                  /\ k <= NumAttempts(j)
                  /\ Outcome(j).attempts[k].status = "failed"
                  /\ Outcome(j).attempts[k].error = ErrorMsg(tasks[j].calls[k])
        /\ (/\ Len(tasks[j].calls) = max_retries + 1
            /\ \A k \in 1..Len(tasks[j].calls) : tasks[j].calls[k] \in FailureResponses)
              => /\ tasks[j].pc = "returned"
                 /\ ~tasks[j].success /\ tasks[j].result = None
                 /\ Outcome(j).status = "failed"
                 /\ Outcome(j).error = ErrorMsg(tasks[j].calls[max_retries + 1])
    /\ pc = "done" =>
        /\ Len(all_results) = Len(all_payloads)
        /\ \A j \in Positions :
              /\ all_results[j] = Outcome(j)
              /\ all_results[j].lead_id = all_payloads[j].lead_id

\* A batch is done in which one item failed by a timeout and then a transport
\* error and a sibling succeeded.
C12_MixedFailuresBatch ==
    /\ pc = "done"
    /\ \E j, k \in Positions :
        /\ j # k
        /\ tasks[j].calls = <<TimeoutResponse, TransportError>>
        /\ all_results[j].status = "failed"
        /\ all_results[k].status = "success"

\* Positions of the items of the n-th batch, and whether that batch is over
\* with every remote call of every one of its items failed.
ItemsOfBatch(n) == {j \in Positions : BatchIndex(j, batch_size) = n}

BatchAllFailed(n) ==
    /\ n <= Len(plan)
    /\ n = Len(plan) => pc # "gather"
    /\ \A j \in ItemsOfBatch(n) :
          /\ tasks[j].calls # <<>>
          /\ \A k \in 1..Len(tasks[j].calls) : ~IsSuccessResponse(tasks[j].calls[k])

\* C13: when every remote call of a batch has failed, every item of the batch
\* is recorded as failed, the loop goes on with the next batch, and the run
\* ends only with every batch executed and every item recorded.
C13_FailedBatchDoesNotAbort ==
    /\ \A n \in 1..Len(plan) :
          BatchAllFailed(n) =>
              \A j \in ItemsOfBatch(n) :
                  /\ j <= Len(all_results)
                  /\ all_results[j].lead_id = all_payloads[j].lead_id
                  /\ all_results[j].status = "failed"
    /\ (pc = "loop" /\ Len(all_results) < Len(all_payloads)) => ENABLED StartBatch
    /\ pc = "pause" => ENABLED PauseOver
    /\ pc = "done" =>
          /\ Len(plan) = CeilDiv(Len(all_payloads), batch_size)
          /\ Len(all_results) = Len(all_payloads)

\* A run is over whose first batch failed in every call and whose later
\* batch had a success.
C13_LaterBatchAfterFailedOne ==
    /\ pc = "done"
    /\ Len(plan) >= 2
    /\ BatchAllFailed(1)
    /\ \E j \in Positions :
          BatchIndex(j, batch_size) > 1 /\ all_results[j].status = "success"

\* The batch waits for permits that no coroutine holds: a hang.
Hangs ==
    /\ pc = "gather"
    /\ ~BatchComplete
    /\ \A j \in BatchPositions : tasks[j].pc \in {"queued", "returned"}
    /\ ~CanAcquire

\* C14: with a malformed configuration the run is rejected at its start: no
\* batch is started, no remote call is made, no outcome record is produced
\* (so none with zero attempts), the run does not hang and does not complete.
C14_MalformedRejected ==
    (Malformed /\ pc # "idle") =>
        /\ pc \in {"loop", "raised"}
        /\ plan = <<>>
        /\ \A j \in Positions : tasks[j].calls = <<>> /\ tasks[j].pc = "unscheduled"
        /\ all_results = <<>>
        /\ ~Hangs

\* C15: the retry delay is slept exactly between a failed attempt and the
\* next attempt of the item. An item that is in its a-th call has slept
\* a - 1 times; after a failed attempt a <= max_retries it sleeps (its a-th
\* sleep) before attempt a + 1; an item that has returned has slept once per
\* call but the last, so neither a success nor the final failed attempt is
\* followed by a sleep.
C15_DelayBetweenAttempts ==
    \A j \in Positions :
        LET t == tasks[j] IN
        /\ t.pc = "awaiting" => t.sleeps = Len(t.calls) /\ t.attempt = Len(t.calls)
        /\ t.pc = "retry_wait" =>
              /\ t.sleeps = Len(t.calls)
              /\ Len(t.calls) <= max_retries
              /\ ~IsSuccessResponse(t.calls[Len(t.calls)])
        /\ t.pc = "returned" =>
              /\ t.sleeps = Len(t.calls) - 1
              /\ (~t.success => Len(t.calls) = max_retries + 1)
        /\ (t.calls # <<>> /\ ~IsSuccessResponse(t.calls[Len(t.calls)])
                /\ Len(t.calls) <= max_retries) =>
              /\ t.pc \in {"retry_wait", "awaiting"}
              /\ t.sleeps = Len(t.calls)

\* An item has returned after max_retries + 1 >= 2 failed attempts and has
\* slept max_retries times.
C15_SleptBetweenFailures ==
    \E j \in Positions :
        /\ tasks[j].pc = "returned"
        /\ ~tasks[j].success
        /\ Len(tasks[j].calls) >= 2
        /\ tasks[j].sleeps = Len(tasks[j].calls) - 1

\* The attempts of item j, and that sequence a is a prefix of sequence b.
Attempts(j) == tasks[j].detailed_result.attempts

IsPrefix(a, b) == Len(a) <= Len(b) /\ SubSeq(b, 1, Len(a)) = a

\* C16: the audit trail of an item is complete and keeps its order: there is
\* one AttemptRecord per remote call made, the k-th has attempt_number k, and
\* a step changes the sequence only by appending one record, which it does
\* exactly when a remote call ends.
C16_AuditTrail ==
    /\ [](\A j \in Positions :
            /\ Len(Attempts(j)) = Len(tasks[j].calls)
            /\ \A k \in 1..Len(Attempts(j)) : Attempts(j)[k].attempt_number = k)
    /\ [][\A j \in Positions :
            /\ IsPrefix(Attempts(j), Attempts(j)')
            /\ Len(Attempts(j)') <= Len(Attempts(j)) + 1
            /\ Len(Attempts(j)') = Len(Attempts(j)) + 1
                  <=> tasks[j].calls' # tasks[j].calls]_vars

\* An item has returned with three AttemptRecords for its three calls.
C16_ThreeAttemptsRecorded ==
    \E j \in Positions :
        /\ tasks[j].pc = "returned"
        /\ Len(tasks[j].calls) = 3
        /\ [k \in 1..3 |-> Attempts(j)[k].attempt_number] = <<1, 2, 3>>

\* C17: the AttemptRecord of a call has status success iff the call returned
\* HTTP 200 with a body that parses; any other end of the call (non-200
\* status, timeout, transport error, unparseable 200) gives status failed
\* with the error of that call, which is not null.
C17_AttemptStatus ==
    \A j \in Positions :
        \A k \in 1..Len(tasks[j].calls) :
            LET r == tasks[j].calls[k]
                a == Attempts(j)[k]
            IN  /\ k <= Len(Attempts(j))
                /\ a.status \in {"success", "failed"}
                /\ a.status = "success" <=> IsSuccessResponse(r)
                /\ IsSuccessResponse(r) => a.error = None
                /\ ~IsSuccessResponse(r) =>
                      /\ a.status = "failed"
                      /\ a.error # None
                      /\ a.error = ErrorMsg(r)

\* An item got an unparseable 200, then a timeout, then a success.
C17_UnparseableThenTimeoutThenSuccess ==
    \E j \in Positions :
        /\ Len(tasks[j].calls) = 3
        /\ tasks[j].calls[1] = BadBodyResponse
        /\ tasks[j].calls[2] = TimeoutResponse
        /\ IsSuccessResponse(tasks[j].calls[3])
        /\ [k \in 1..3 |-> Attempts(j)[k].status] = <<"failed", "failed", "success">>

\* C18: in every outcome record final_result is present iff status is
\* success.
C18_FinalResultIffSuccess ==
    /\ \A j \in Returned :
          Outcome(j).final_result # None <=> Outcome(j).status = "success"
    /\ \A k \in 1..Len(all_results) :
          all_results[k].final_result # None <=> all_results[k].status = "success"

\* C19: when an invocation of process_all_leads has completed, the result
\* set holds the outcome records of the payloads of that invocation and no
\* others, also on a pipeline object that was used before.
C19_FreshResultSet ==
    pc = "done" =>
        /\ Len(all_results) = Len(all_payloads)
        /\ \A k \in 1..Len(all_results) :
              k <= Len(all_payloads) => all_results[k].lead_id = all_payloads[k].lead_id

\* C20: after a resumed run of the handler, every lead whose prior outcome
\* was a success still has a success outcome in the merged result set.
C20_ResumeKeepsSuccess ==
    (app_pc = "completed" /\ resume_generation) =>
        \A k \in 1..Len(prior_emails) :
            prior_emails[k].status = "success" =>
                \E m \in 1..Len(generated_emails) :
                    /\ generated_emails[m].lead_id = prior_emails[k].lead_id
                    /\ generated_emails[m].status = "success"

\* C21: the result set is written by the aggregation after gather only. While
\* a batch is at its gather the result set holds the records of the earlier
\* batches and nothing else; a step that changes it is taken with every
\* coroutine of the batch returned and appends the records of the whole batch.
C21_SingleWriter ==
    /\ [](pc = "gather" => Len(all_results) = i)
    /\ [][all_results' # all_results =>
            /\ pc = "gather"
            /\ \A j \in BatchPositions : tasks[j].pc = "returned"
            /\ IsPrefix(all_results, all_results')
            /\ Len(all_results') = Len(all_results) + Len(batch)
            /\ \A j \in BatchPositions : all_results'[j] = Outcome(j)]_vars

\* A batch is at its gather with one item returned and a sibling's call
\* outstanding; the returned item's record is not in the result set yet.
C21_InFlightAfterSiblingReturned ==
    /\ pc = "gather"
    /\ Len(all_results) = i
    /\ \E j, k \in BatchPositions :
          /\ tasks[j].pc = "returned"
          /\ tasks[k].pc = "awaiting"
          /\ \A m \in 1..Len(all_results) : all_results[m].lead_id # Outcome(j).lead_id

\* C22: the inter-batch sleep follows every batch but the last. With
\* m = ceil(N / B) batches a completed run has slept m - 1 times (0 for
\* m <= 1); the k-th sleep begins with batch k complete and is over before
\* batch k + 1 starts.
C22_PauseBetweenBatches ==
    LET m == CeilDiv(Len(all_payloads), batch_size) IN
    /\ pc = "done" => pauses = (IF m <= 1 THEN 0 ELSE m - 1)
    /\ pc = "pause" =>
          /\ Len(plan) < m
          /\ pauses = Len(plan) - 1
          /\ Len(all_results) = Len(plan) * batch_size
    /\ pc = "gather" => pauses = Len(plan) - 1
    /\ (pc = "loop" /\ Len(plan) < m) => pauses = Len(plan)
    /\ (pc = "loop" /\ Len(plan) = m /\ m >= 1) => pauses = m - 1

\* A run of three batches is over, with two sleeps between them.
C22_ThreeBatchesTwoPauses ==
    /\ pc = "done"
    /\ Len(plan) = 3
    /\ pauses = 2

\* Number of records of a list with a given status.
CountStatus(list, st) == Cardinality({k \in 1..Len(list) : list[k].status = st})

\* C23: twelve items, batch_size 5, max_concurrent 3, max_retries 1, every
\* call answered with HTTP 500: the run makes three batches of 5, 5 and 2
\* items, every item gets exactly two AttemptRecords, and the final result
\* set has no success and twelve failures.
C23_AllFail500Scenario ==
    /\ \A j \in Returned :
          /\ NumAttempts(j) = 2
          /\ \A k \in 1..2 : Attempts(j)[k].error = "HTTP 500"
    /\ pc = "done" =>
          /\ [n \in 1..Len(plan) |-> Len(plan[n])] = <<5, 5, 2>>
          /\ Len(all_results) = 12
          /\ \A j \in 1..12 : Len(all_results[j].attempts) = 2
          /\ CountStatus(all_results, "success") = 0
          /\ CountStatus(all_results, "failed") = 12
          /\ total_successful = 0

\* The scenario's run is over: three batches, twelve records.
C23_ScenarioRunOver ==
    /\ pc = "done"
    /\ Len(plan) = 3
    /\ Len(all_results) = 12
    /\ max_concurrent = 3 /\ batch_size = 5

\* C24: one item, max_retries 2, the first attempt timing out and the second
\* succeeding: the outcome record has exactly two AttemptRecords (failed
\* with error Timeout, then success), status success, and final_result is
\* the body of the second response.
C24_TimeoutThenSuccess ==
    \A j \in Positions :
        (/\ max_retries = 2
         /\ Len(tasks[j].calls) >= 2
         /\ tasks[j].calls[1] = TimeoutResponse
         /\ IsSuccessResponse(tasks[j].calls[2]))
        => /\ tasks[j].pc = "returned"
           /\ Len(tasks[j].calls) = 2
           /\ NumAttempts(j) = 2
           /\ Attempts(j)[1].status = "failed" /\ Attempts(j)[1].error = "Timeout"
           /\ Attempts(j)[2].status = "success" /\ Attempts(j)[2].error = None
           /\ Outcome(j).status = "success"
           /\ Outcome(j).final_result = ParseJson(tasks[j].calls[2].body)

\* With max_retries 2 the item timed out, then got the body {email_A}.
C24_TimedOutThenGotBody ==
    \E j \in Positions :
        /\ max_retries = 2
        /\ tasks[j].calls = <<TimeoutResponse, [kind |-> "http", status |-> 200, body |-> "{email_A}"]>>
        /\ Outcome(j).final_result = "email_A"
        /\ pc = "done"

\* The rows of the DataFrame with a value in column col.
RowsWith(col) == {n \in 1..Len(df.rows) : df.rows[n][col] # NaN}

\* C25: get_sending_status returns ready_to_send equal to the least of the
\* three per-column presence counts, which is at most total_leads; counts of
\* 3, 2 and 3 over 4 rows give ready_to_send = 2.
C25_ReadyIsMinOfCounts ==
    (sending_status # <<>> /\ HasSendColumns(df)) =>
        LET st == sending_status[1]
            e == Cardinality(RowsWith("email_id"))
            s == Cardinality(RowsWith("email_subject"))
            b == Cardinality(RowsWith("email_body"))
        IN  /\ st.valid_emails = e
            /\ st.valid_subjects = s
            /\ st.valid_bodies = b
            /\ st.ready_to_send \in {e, s, b}
            /\ st.ready_to_send <= e
            /\ st.ready_to_send <= s
            /\ st.ready_to_send <= b
            /\ st.ready_to_send <= st.total_leads
            /\ st.total_leads = Len(df.rows)
            /\ (Len(df.rows) = 4 /\ e = 3 /\ s = 2 /\ b = 3) => st.ready_to_send = 2

\* The status of four rows with 3, 2 and 3 cells present, of which only one
\* row has all three, has been returned.
C25_CountsThreeTwoThree ==
    /\ sending_status # <<>>
    /\ HasSendColumns(df)
    /\ Len(df.rows) = 4
    /\ Cardinality(RowsWith("email_id")) = 3
    /\ Cardinality(RowsWith("email_subject")) = 2
    /\ Cardinality(RowsWith("email_body")) = 3
    /\ Cardinality(RowsWith("email_id") \cap RowsWith("email_subject")
                      \cap RowsWith("email_body")) = 1
    /\ sending_status[1].ready_to_send = 2

\* The coroutines of send_emails, and some coroutine starting its request.
SendBatches == DOMAIN send_tasks
SomeSendPost == \E b \in SendBatches : SendPost(b)

\* C26: the batches of send_emails are dispatched concurrently and without a
\* cap (a coroutine not yet at its request can always go on to it, however
\* many requests are in flight), one remote call is made per batch, and no
\* batch gets a second call whatever the first one's outcome.
C26_DispatchConcurrentOnce ==
    /\ send_pc \in {"gather", "done"} => Len(send_tasks) = Len(batches)
    /\ \A b \in SendBatches :
          /\ Len(send_tasks[b].calls) <= 1
          /\ send_tasks[b].pc = "returned" <=> Len(send_tasks[b].calls) = 1
    /\ (send_pc = "gather" /\ \E b \in SendBatches : send_tasks[b].pc = "created")
          => ENABLED SomeSendPost
    /\ send_pc = "done" => \A b \in SendBatches : Len(send_tasks[b].calls) = 1

\* Three batches have their requests in flight at the same time.
C26_AllBatchesInFlight ==
    /\ send_pc = "gather"
    /\ Len(send_tasks) = 3
    /\ \A b \in SendBatches : send_tasks[b].pc = "in_flight"

\* The entries the answers of the batches amount to, as pairs of batch and
\* position, with and without an error.
FailedBatches == {b \in SendBatches : send_tasks[b].calls # <<>> /\
                                       send_tasks[b].calls[1] \in SendBatchFailures}
ListBatches == {b \in SendBatches : send_tasks[b].calls # <<>> /\
                                     send_tasks[b].calls[1].body = "list"}
ErrorEntries ==
    {<<b, k>> \in ListBatches \X (1..MaxSendBatchSize) :
        k <= Len(send_tasks[b].calls[1].entries) /\
        send_tasks[b].calls[1].entries[k].error # None}
OkEntries ==
    {<<b, k>> \in ListBatches \X (1..MaxSendBatchSize) :
        k <= Len(send_tasks[b].calls[1].entries) /\
        send_tasks[b].calls[1].entries[k].error = None}

\* C27: a batch whose request failed as a whole (status other than 200,
\* timeout, connection error) returns one error entry and nothing is raised;
\* when every batch has been answered by such a failure or by a list, the
\* summary send_emails returns covers all batches: one failed entry and one
\* error per failed batch, and the entries of every other batch as answered.
C27_BatchFailureIsolated ==
    /\ send_pc # "raised" \/ ~HasSendColumns(df)
    /\ \A b \in FailedBatches :
          /\ send_tasks[b].pc = "returned"
          /\ send_tasks[b].result.iterable
          /\ Len(send_tasks[b].result.entries) = 1
          /\ send_tasks[b].result.entries[1].error # None
    /\ \A b \in ListBatches : send_tasks[b].result.entries = send_tasks[b].calls[1].entries
    /\ (send_pc = "done" /\ FailedBatches \cup ListBatches = SendBatches) =>
          /\ send_results.failed = Cardinality(FailedBatches) + Cardinality(ErrorEntries)
          /\ send_results.successful = Cardinality(OkEntries)
          /\ Len(send_results.errors) = send_results.failed
          /\ \A b \in FailedBatches :
                \E n \in 1..Len(send_results.errors) :
                    send_results.errors[n] = send_tasks[b].result.entries[1].error

\* send_emails has returned after three batches: the first failed with HTTP
\* 500, the second was accepted, the third timed out.
C27_FailedAcceptedTimedOut ==
    /\ send_pc = "done"
    /\ Len(send_tasks) = 3
    /\ send_tasks[1].calls = <<SendHttp500>>
    /\ send_tasks[2].calls = <<SendAccepted(batches[2])>>
    /\ send_tasks[3].calls = <<SendTimeout>>
    /\ send_results.successful = 1
    /\ send_results.failed = 2

\* Remote calls made so far in the run, over all items.
TotalCalls ==
    LET F[n \in 0..Len(tasks)] ==
            IF n = 0 THEN 0 ELSE F[n - 1] + Len(tasks[n].calls)
    IN  F[Len(tasks)]

\* C28: with a well-formed configuration and every remote call answered, the
\* run of process_all_leads ends completed, after at most
\* N * (max_retries + 1) remote calls: the calls stay within the bound, and a
\* state from which the run can go no further is one in which
\* process_all_leads has returned.
C28_EndsCompletedWithinCallBound ==
    /\ TotalCalls <= Len(all_payloads) * (max_retries + 1)
    /\ ~(ENABLED Next) => pc = "done"

\* Items of the current batch that have passed the semaphore and not returned.
Started == {j \in BatchPositions : tasks[j].pc \in {"awaiting", "retry_wait"}}

\* C29: an item holds its permit from before its first attempt until it
\* returns, retries and retry delays included: at most max_concurrent items
\* of a batch have started and not finished, the free permits are the ones
\* these items do not hold, and while max_concurrent items are started (be
\* it in a retry delay) no further item can start.
C29_PermitHeldAcrossRetries ==
    pc = "gather" =>
        /\ Cardinality(Started) <= max_concurrent
        /\ semaphore = max_concurrent - Cardinality(Started)
        /\ Cardinality(Started) = max_concurrent =>
              \A j \in BatchPositions : ~(ENABLED Acquire(j))

\* All permits are held, one of them by an item in its retry delay, and an
\* item of the batch is still waiting to start.
C29_WaitingItemBlocksQueued ==
    /\ pc = "gather"
    /\ Cardinality(Started) = max_concurrent
    /\ \E j \in BatchPositions : tasks[j].pc = "retry_wait"
    /\ \E k \in BatchPositions : tasks[k].pc = "queued"

\* C30: after a completed run the records of all_results are in input order:
\* record k is the outcome record of input payload k, in whatever order the
\* items of a batch returned.
C30_ResultsInInputOrder ==
    pc = "done" =>
        /\ Len(all_results) = Len(all_payloads)
        /\ \A k \in 1..Len(all_results) :
              /\ all_results[k].lead_id = all_payloads[k].lead_id
              /\ all_results[k].payload = all_payloads[k]
              /\ all_results[k] = Outcome(k)

\* A run is over in which the second item of the first batch returned before
\* the first item.
C30_SecondItemReturnedFirst ==
    /\ pc = "done"
    /\ Len(all_payloads) >= 2
    /\ tasks[1].finished = 2
    /\ tasks[2].finished = 1
    /\ all_results[1].lead_id = all_payloads[1].lead_id

\* C31: after an aborted run in resume mode the stored generated_emails still
\* holds every prior outcome record whose lead the aborted run did not
\* complete.
C31_AbortKeepsPriorRecords ==
    (app_pc \in {"failed", "propagated"} /\ resume_generation) =>
        \A k \in 1..Len(prior_emails) :
            prior_emails[k].lead_id \notin LeadIdsOf(all_results) =>
                \E m \in 1..Len(generated_emails) : generated_emails[m] = prior_emails[k]

\* C32: when send_emails has returned and every batch either failed as a
\* whole or was answered with one entry per submitted payload, the summary
\* has successful + failed = total_emails.
C32_SummaryAddsUp ==
    (/\ send_pc = "done"
     /\ \A b \in SendBatches :
           \/ b \in FailedBatches
           \/ (b \in ListBatches /\ Len(send_tasks[b].calls[1].entries) = Len(batches[b])))
    => send_results.successful + send_results.failed = send_results.total_emails

\* Rows of the DataFrame that have a value in all three columns.
CompleteRows ==
    RowsWith("email_id") \cap RowsWith("email_subject") \cap RowsWith("email_body")

\* C33: ready_to_send as get_sending_status reports it is the number of rows
\* with all three cells present, which is the number of payloads send_emails
\* builds from the same DataFrame.
C33_ReadyEqualsSendable ==
    (sending_status # <<>> /\ HasSendColumns(df)) =>
        /\ sending_status[1].ready_to_send = Cardinality(CompleteRows)
        /\ sending_status[1].ready_to_send = Len(EmailPayloads(df))

\* Columns of the DataFrame in which some cell is missing.
ColumnsWithNaN ==
    {col \in SendColumns : \E n \in 1..Len(df.rows) : df.rows[n][col] = NaN}

\* C33, amended: ready_to_send is at least the number of rows with all three
\* cells present, which is the number of payloads send_emails builds; the two
\* are equal when the missing cells are all in one column.
C33_ReadyBoundsSendable ==
    (sending_status # <<>> /\ HasSendColumns(df)) =>
        /\ Len(EmailPayloads(df)) = Cardinality(CompleteRows)
        /\ Len(EmailPayloads(df)) <= sending_status[1].ready_to_send
        /\ Cardinality(ColumnsWithNaN) <= 1 =>
              sending_status[1].ready_to_send = Len(EmailPayloads(df))

\* The status of two rows has been returned, one without a subject and one
\* without a body: ready_to_send is 1 and no row can be sent.
C33_ReadyOneSendableNone ==
    /\ sending_status # <<>>
    /\ HasSendColumns(df)
    /\ Len(df.rows) = 2
    /\ df.rows[1].email_subject = NaN /\ df.rows[1].email_body # NaN
    /\ df.rows[2].email_body = NaN /\ df.rows[2].email_subject # NaN
    /\ df.rows[1].email_id # NaN /\ df.rows[2].email_id # NaN
    /\ sending_status[1].ready_to_send = 1
    /\ EmailPayloads(df) = <<>>

\* C34: the success counts agree with the result set. Between batches and at
\* the end total_successful is the number of success records in all_results
\* and total_processed the number of records; a completed run has
\* total_processed = N; and the step that adds a batch's records raises
\* total_successful by the number of success records among them.
C34_CountsAgreeWithResults ==
    /\ [](pc \in {"loop", "pause", "done"} =>
            /\ total_successful = CountStatus(all_results, "success")
            /\ total_processed = Len(all_results))
    /\ [](pc = "done" => total_processed = Len(all_payloads))
    /\ [][all_results' # all_results =>
            /\ total_successful' - total_successful =
                  Cardinality({k \in (Len(all_results) + 1)..Len(all_results') :
                                  all_results'[k].status = "success"})
            /\ total_processed' - total_processed = Len(all_results') - Len(all_results)]_vars

\* A run of two batches is over with one success and one failure in its
\* first batch.
C34_MixedBatchCounted ==
    /\ pc = "done"
    /\ Len(plan) = 2
    /\ Len(plan[1]) = 2
    /\ all_results[1].status = "failed"
    /\ all_results[2].status = "success"
    /\ total_successful = CountStatus(all_results, "success")
    /\ total_processed = 3

\* C35: the error of an outcome record is not cleared by a later success. A
\* success record after failed attempts holds the error of its last failed
\* attempt; the error of a returned record is null only if its first attempt
\* succeeded.
C35_ErrorKeptOnSuccess ==
    \A j \in Returned :
        LET n == Len(tasks[j].calls) IN
        /\ (Outcome(j).status = "success" /\ n >= 2) =>
              /\ Outcome(j).error # None
              /\ Outcome(j).error = ErrorMsg(tasks[j].calls[n - 1])
              /\ Outcome(j).error = Attempts(j)[n - 1].error
        /\ (Outcome(j).status = "success" /\ n = 1) => Outcome(j).error = None
        /\ (n >= 1 /\ Outcome(j).error = None) =>
              /\ n = 1
              /\ IsSuccessResponse(tasks[j].calls[1])

\* An item succeeded at its third attempt after an HTTP 500 and a timeout;
\* its record is a success with error Timeout.
C35_SuccessRecordWithError ==
    \E j \in Returned :
        /\ Len(tasks[j].calls) = 3
        /\ tasks[j].calls[1] = Http500Response
        /\ tasks[j].calls[2] = TimeoutResponse
        /\ Outcome(j).status = "success"
        /\ Outcome(j).error = "Timeout"

\* The tally of send_emails ended in its exception handler: a batch_result
\* could not be iterated.
TallyRaised == \E b \in SendBatches : ~send_tasks[b].result.iterable

NthCompleteRow(k) ==
    CHOOSE n \in CompleteRows : Cardinality({m \in CompleteRows : m < n}) = k - 1

\* The payloads of the requests send_emails has posted or will post, in
\* batch order.
Submitted == Concat(batches)

\* C37: send_emails submits exactly the rows of df that have email_id,
\* email_subject and email_body, in row order: total_emails is the number of
\* such rows, the k-th submitted payload is that of the k-th such row, and no
\* row with a missing cell is in any batch.
C37_SubmitsCompleteRowsInOrder ==
    send_pc \in {"gather", "done"} =>
        /\ send_results.total_emails = Cardinality(CompleteRows)
        /\ Len(Submitted) = Cardinality(CompleteRows)
        /\ \A k \in 1..Len(Submitted) :
              LET row == df.rows[NthCompleteRow(k)] IN
              /\ Submitted[k].email = <<row.email_id>>
              /\ Submitted[k].subject = row.email_subject
              /\ Submitted[k].body = row.email_body
        /\ \A n \in (1..Len(df.rows)) \ CompleteRows :
              \A b \in 1..Len(batches) : \A k \in 1..Len(batches[b]) :
                  batches[b][k].email # <<df.rows[n].email_id>>
        /\ \A b \in 1..Len(batches) : batches[b] # <<>> /\ Len(batches[b]) <= sender_batch_size

\* Of the rows c, b (no subject), a the first and the last were submitted,
\* in that order, in two batches of one.
C37_MiddleRowSkipped ==
    /\ send_pc = "done"
    /\ Len(df.rows) = 3
    /\ df.rows[1].email_id = "c@z.org"
    /\ df.rows[2].email_id = "b@y.org"
    /\ df.rows[3].email_id = "a@x.org"
    /\ Len(batches) = 2
    /\ batches[1][1].email = <<"c@z.org">>
    /\ batches[2][1].email = <<"a@x.org">>
    /\ send_results.total_emails = 2

\* C38: the pipeline never modifies its input. No step of process_all_leads
\* changes the payload list or a payload; every outcome record, and every
\* attempt it lists, holds exactly the payload submitted for its item, and so
\* does every record in all_results.
C38_InputUnchangedAndEchoed ==
    /\ [][all_payloads' = all_payloads]_vars
    /\ [](\A j \in Positions :
            /\ tasks[j].payload = all_payloads[j]
            /\ Outcome(j).payload = all_payloads[j]
            /\ \A a \in 1..NumAttempts(j) : Attempts(j)[a].payload = all_payloads[j])
    /\ [](\A k \in 1..Len(all_results) :
            /\ all_results[k].payload = all_payloads[k]
            /\ \A a \in 1..Len(all_results[k].attempts) :
                  all_results[k].attempts[a].payload = all_payloads[k])
    /\ [](Concat(plan) = SubSeq(all_payloads, 1, Len(Concat(plan))))

\* The run of three leads is over; the second was retried, and its record
\* and both its attempts hold the second payload of the input.
C38_RetriedItemEchoesPayload ==
    /\ pc = "done"
    /\ Len(all_payloads) = 3
    /\ Len(all_results) = 3
    /\ Len(all_results[2].attempts) = 2
    /\ all_results[2].payload = all_payloads[2]
    /\ all_results[2].attempts[1].payload = all_payloads[2]
    /\ all_results[2].attempts[2].payload = all_payloads[2]
    /\ all_payloads[2] # all_payloads[1]

====
